---------------------------- MODULE Spec2Model ----------------------------
(***************************************************************************)
(* Model of tools/ctc_segmentation/scripts/utils.py: the two ground-truth  *)
(* matrix builders, the boundary refiner and scorer                        *)
(* (determine_utterance_segments), the output writer and the per-job       *)
(* driver get_segments.                                                    *)
(*                                                                         *)
(* Conventions.  Python sequences are 0-based, TLA+ sequences 1-based:     *)
(* At(s, i) is the Python read s[i] for 0 <= i < len(s).  A string is a    *)
(* sequence of one-character strings; a vocabulary symbol is such a        *)
(* sequence too, so that a two-character symbol can be compared with a     *)
(* two-character span of the ground truth.  The character "_" stands for   *)
(* U+2581 (the word-boundary meta symbol) and "e" for the blank symbol.    *)
(* Times are integers counted in eighths of a second.                      *)
(***************************************************************************)
EXTENDS Integers, Sequences, FiniteSets, TLC

VARIABLES
    pc,     \* position of the call (or, for the batch, of every job)
    call,   \* the arguments of the function being called
    ret,    \* what the call returned or raised, with the locals it computed
    files,  \* the file system: the lines of every output file that exists
    log     \* the messages logged by the jobs

vars == <<pc, call, ret, files, log>>

---------------------------------------------------------------------------
(* Bounds of the model *)
MaxUtts == 2        \* utterances in a text
MaxTokens == 2      \* token ids the tokenizer returns for an utterance

---------------------------------------------------------------------------
(* Python helpers *)
At(s, i) == s[i + 1]

\* s.endswith(c) for a one-character c
EndsWith(s, c) == Len(s) > 0 /\ s[Len(s)] = c

\* sym in list
InList(list, sym) == \E k \in 1..Len(list) : list[k] = sym

\* list.index(sym): the first position holding sym (the caller checks InList)
Index(list, sym) ==
    (CHOOSE k \in 1..Len(list) :
        list[k] = sym /\ \A j \in 1..(k - 1) : list[j] # sym) - 1

---------------------------------------------------------------------------
(* Configuration values read by the character-mode builder *)
space == " "
tokenized_meta_symbol == "_"
excluded_characters == {".", ","}

\* the character appended for one character of an utterance, or none
RetainChar(char_list, char) ==
    \/ InList(char_list, <<char>>) /\ char \notin excluded_characters
    \/ InList(char_list, <<tokenized_meta_symbol, char>>)

RECURSIVE AddChars(_, _, _, _)
AddChars(char_list, ground_truth, utt, k) ==
    IF k > Len(utt) THEN ground_truth
    ELSE AddChars(char_list,
                  IF RetainChar(char_list, utt[k])
                  THEN Append(ground_truth, utt[k]) ELSE ground_truth,
                  utt, k + 1)

\* "One space in-between"
WithSpace(ground_truth) ==
    IF EndsWith(ground_truth, space) THEN ground_truth
    ELSE Append(ground_truth, space)

\* the index remembered for a new utterance
BeginIndexOffByOne(ground_truth) == Len(ground_truth)
BeginIndex(ground_truth) == Len(ground_truth) - 1

\* the loop over the utterances: <<ground_truth, utt_begin_indices>>
RECURSIVE TextLoop(_, _, _, _, _)
TextLoop(char_list, ground_truth, utt_begin_indices, text, k) ==
    IF k > Len(text) THEN <<ground_truth, utt_begin_indices>>
    ELSE LET g == WithSpace(ground_truth)
         IN  TextLoop(char_list,
                      AddChars(char_list, g, text[k], 1),
                      Append(utt_begin_indices, BeginIndex(g)),
                      text, k + 1)

\* ground_truth_mat[i, s]
MatSlot(char_list, ground_truth, i, s) ==
    IF i - s < 0 THEN -1
    ELSE LET span == SubSeq(ground_truth, i - s + 1, i + 1)
         IN  IF InList(char_list, span) THEN Index(char_list, span) ELSE -1

\* char_list.index(span) raises ValueError when span == config.space is not
\* in the vocabulary
SpaceLookupRaises(char_list, ground_truth) ==
    /\ \E i \in 1..Len(ground_truth) : ground_truth[i] = space
    /\ ~InList(char_list, <<space>>)

NoRaise == "none"

_prepare_text_default(config, text) ==
    LET loop == TextLoop(config.char_list, config.start_of_ground_truth,
                         <<>>, text, 1)
        ground_truth == WithSpace(loop[1])
        utt_begin_indices == Append(loop[2], BeginIndex(ground_truth))
    IN  IF SpaceLookupRaises(config.char_list, ground_truth)
        THEN [raised |-> "ValueError", ground_truth |-> ground_truth,
              ground_truth_mat |-> <<>>, utt_begin_indices |-> <<>>]
        ELSE [raised |-> NoRaise, ground_truth |-> ground_truth,
              ground_truth_mat |->
                  [i \in 1..Len(ground_truth) |->
                      <<MatSlot(config.char_list, ground_truth, i - 1, 0),
                        MatSlot(config.char_list, ground_truth, i - 1, 1)>>],
              utt_begin_indices |-> utt_begin_indices]

---------------------------------------------------------------------------
(* Token mode *)
RECURSIVE TokenRows(_, _)
TokenRows(token_ids, k) ==
    IF k > Len(token_ids) THEN <<>>
    ELSE <<(<<token_ids[k], -1>>)>> \o TokenRows(token_ids, k + 1)

\* the position recorded for an utterance, after its bracket row was added
UttBeginBeforeBracket(ground_truth_mat) == Len(ground_truth_mat) - 1
UttBegin(ground_truth_mat) == Len(ground_truth_mat)

RECURSIVE BpeLoop(_, _, _, _, _, _)
BpeLoop(bracket, ground_truth_mat, utt_begin_indices, text, tokenizer, k) ==
    IF k > Len(text) THEN <<ground_truth_mat, utt_begin_indices>>
    ELSE LET m == Append(ground_truth_mat, bracket)
         IN  BpeLoop(bracket,
                     m \o TokenRows(tokenizer[text[k]], 1),
                     Append(utt_begin_indices, UttBegin(m)),
                     text, tokenizer, k + 1)

_prepare_tokenized_text_for_bpe_model(text, tokenizer, vocabulary) ==
    IF ~InList(vocabulary, <<tokenized_meta_symbol>>)
    THEN [raised |-> "ValueError", ground_truth |-> <<>>,
          ground_truth_mat |-> <<>>, utt_begin_indices |-> <<>>]
    ELSE LET space_idx == Index(vocabulary, <<tokenized_meta_symbol>>)
             blank_idx == Len(vocabulary) - 1
             bracket == <<blank_idx, space_idx>>
             loop == BpeLoop(bracket, <<(<<-1, -1>>)>>, <<>>, text, tokenizer, 1)
         IN  [raised |-> NoRaise, ground_truth |-> <<>>,
              ground_truth_mat |-> Append(loop[1], bracket),
              utt_begin_indices |-> Append(loop[2], Len(loop[1]))]

---------------------------------------------------------------------------
(* Inputs of the builders *)
BlankSym == "e"

SeqsUpTo(S, n) == UNION {[1..m -> S] : m \in 0..n}

\* utterances: empty, kept, dropped (excluded or out of vocabulary), with
\* leading, inner and trailing spaces
Utterances ==
    { <<>>, <<"a">>, <<"b">>, <<".">>, <<"a", "b">>, <<"b", "a">>,
      <<"a", ".">>, <<".", ".">>, <<" ", "a">>, <<"a", " ">>,
      <<"a", " ", "b">> }
Texts == SeqsUpTo(Utterances, MaxUtts)

Vocabularies ==
    { <<(<<"a">>), (<<"b">>), (<<" ">>), (<<BlankSym>>)>>,
      <<>>,
      <<(<<"a">>), (<<"_", "b">>), (<<" ">>), (<<BlankSym>>)>>,
      <<(<<"a">>), (<<".">>), (<<" ">>), (<<BlankSym>>)>>,
      <<(<<"a", "b">>), (<<"a">>), (<<"b">>), (<<" ">>), (<<BlankSym>>)>>,
      <<(<<"_">>), (<<"a">>), (<<"b">>), (<<BlankSym>>)>> }

StartsOfGroundTruth == {<<>>, <<"#">>}

BpeUtterances == {<<"a">>, <<"a", "b">>}
TokenSeqs == SeqsUpTo({1, 2}, MaxTokens)
Tokenizers == [BpeUtterances -> TokenSeqs]

NoRet == [raised |-> NoRaise]
NoFiles == <<>>
NoTokenizer == <<>>

CharConfigs ==
    [char_list : Vocabularies, start_of_ground_truth : StartsOfGroundTruth]

InitBuild ==
    /\ pc = "call"
    /\ \/ call \in [bpe_model : {FALSE}, config : CharConfigs,
                    text : Texts, tokenizer : {NoTokenizer}]
       \/ call \in [bpe_model : {TRUE},
                    config : [char_list : Vocabularies,
                              start_of_ground_truth : {<<"#">>}],
                    text : SeqsUpTo(BpeUtterances, MaxUtts),
                    tokenizer : Tokenizers]
    /\ ret = NoRet
    /\ files = NoFiles
    /\ log = <<>>

PrepareTextDefault ==
    /\ pc = "call"
    /\ ~call.bpe_model
    /\ ret' = _prepare_text_default(call.config, call.text)
    /\ pc' = "done"
    /\ UNCHANGED <<call, files, log>>

PrepareTokenizedTextForBpeModel ==
    /\ pc = "call"
    /\ call.bpe_model
    /\ ret' = _prepare_tokenized_text_for_bpe_model(
                  call.text, call.tokenizer, call.config.char_list)
    /\ pc' = "done"
    /\ UNCHANGED <<call, files, log>>

NextBuild == PrepareTextDefault \/ PrepareTokenizedTextForBpeModel

SpecBuild == InitBuild /\ [][NextBuild]_vars

---------------------------------------------------------------------------
(* Boundary refiner and scorer *)

\* Python indexing of a list or array: negative indices count from the end,
\* anything outside -len .. len-1 raises IndexError
PyIndexOk(s, i) == -Len(s) <= i /\ i < Len(s)
PyAt(s, i) == IF i < 0 THEN s[Len(s) + i + 1] ELSE s[i + 1]

\* numpy slice a[lo:hi]
PyClamp(s, i) ==
    LET j == IF i < 0 THEN i + Len(s) ELSE i
    IN  IF j < 0 THEN 0 ELSE IF j > Len(s) THEN Len(s) ELSE j
PySlice(s, lo, hi) == SubSeq(s, PyClamp(s, lo) + 1, PyClamp(s, hi))

Max2(a, b) == IF a >= b THEN a ELSE b
Min2(a, b) == IF a <= b THEN a ELSE b

\* 0.5 seconds, in eighths of a second
HalfSecond == 4

\* the reads of timings made by _compute_time
ComputeTimeRaises(index, align_type, timings) ==
    \/ ~PyIndexOk(timings, index)
    \/ ~PyIndexOk(timings, index - 1)
    \/ align_type = "begin" /\ ~PyIndexOk(timings, index + 1)

_compute_time(index, align_type, timings) ==
    LET middle == (PyAt(timings, index) + PyAt(timings, index - 1)) \div 2
    IN  IF align_type = "begin"
        THEN Max2(PyAt(timings, index + 1) - HalfSecond, middle)
        ELSE Min2(PyAt(timings, index - 1) + HalfSecond, middle)

\* int(round(num / den)) for den > 0: Python rounds halves to even
RoundHalfEven(num, den) ==
    LET q == num \div den
        r == num % den
    IN  IF 2 * r < den THEN q
        ELSE IF 2 * r > den THEN q + 1
        ELSE IF q % 2 = 0 THEN q ELSE q + 1

\* the look-back window of the blank scan
LookBack == 20

NoBlank == [raised |-> FALSE, found |-> FALSE, at |-> 0]

\* the while loop looking for the left-most blank: start_blank (found, at),
\* or raised when char_list[j] is read outside the list
RECURSIVE ScanBlank(_, _, _, _, _)
ScanBlank(char_list, blank, start_t_floor, j, start_blank) ==
    IF ~PyIndexOk(char_list, j)
    THEN [raised |-> TRUE, found |-> FALSE, at |-> 0]
    ELSE IF PyAt(char_list, j) = blank /\ j > start_t_floor - LookBack
         THEN ScanBlank(char_list, blank, start_t_floor, j - 1,
                        [raised |-> FALSE, found |-> TRUE, at |-> j])
         ELSE start_blank

\* "if start_blank:" is false for None and for frame 0
Truthy(start_blank) == start_blank.found /\ start_blank.at # 0

\* A score is a rational num/den; den = 0 is nan (the mean of an empty
\* slice); min_prob stands for the sentinel -10000000000.0
min_prob == [kind |-> "min_prob", num |-> -1, den |-> 1]
Value(num, den) == [kind |-> "value", num |-> num, den |-> den]

RECURSIVE Sum(_, _)
Sum(s, k) == IF k > Len(s) THEN 0 ELSE s[k] + Sum(s, k + 1)

Mean(s) == Value(Sum(s, 1), Len(s))

\* a < b on scores produced by Mean; false when either is nan
Less(a, b) == a.den # 0 /\ b.den # 0 /\ a.num * b.den < b.num * a.den

\* Python min(a, b): b if b < a else a
PyMin(a, b) == IF Less(b, a) THEN b ELSE a

\* the last window start visited by range(start_t, end_t - n)
LastWindowStart(end_t, n) == end_t - n - 1

\* for t in range(start_t, end_t - n): min_avg = min(min_avg, mean(window))
RECURSIVE WindowLoop(_, _, _, _, _)
WindowLoop(char_probs, n, t, end_t, min_avg) ==
    IF t > LastWindowStart(end_t, n) THEN min_avg
    ELSE WindowLoop(char_probs, n, t + 1, end_t,
                    PyMin(min_avg, Mean(PySlice(char_probs, t, t + n))))

Confidence(char_probs, n, start_t, end_t) ==
    IF end_t <= start_t THEN min_prob
    ELSE IF end_t - start_t <= n
         THEN Mean(PySlice(char_probs, start_t, end_t))
         ELSE WindowLoop(char_probs, n, start_t, end_t, Value(0, 1))

Raised(e) == [raised |-> e]

\* one iteration of the loop over the utterances (i is 1-based): the segment
\* and the locals it was computed from, or the exception raised
UtteranceSegment(config, utt_begin_indices, char_probs, timings, char_list, i) ==
    IF \/ ComputeTimeRaises(utt_begin_indices[i], "begin", timings)
       \/ ComputeTimeRaises(utt_begin_indices[i + 1], "end", timings)
    THEN Raised("IndexError")
    ELSE
    LET raw_start == _compute_time(utt_begin_indices[i], "begin", timings)
        end == _compute_time(utt_begin_indices[i + 1], "end", timings)
        D == config.index_duration_in_seconds
        start_t_floor == raw_start \div D
    IN  IF \/ ~PyIndexOk(char_list, start_t_floor)
           \/ ~PyIndexOk(config.char_list, config.blank)
        THEN Raised("IndexError")
        ELSE
        LET blank == PyAt(config.char_list, config.blank)
            snap == PyAt(char_list, start_t_floor) = blank
            start_blank ==
                IF snap
                THEN ScanBlank(char_list, blank, start_t_floor,
                               start_t_floor - 1, NoBlank)
                ELSE NoBlank
            start_t ==
                IF snap
                THEN IF Truthy(start_blank)
                     THEN RoundHalfEven(start_blank.at + start_t_floor, 2)
                     ELSE start_t_floor
                ELSE RoundHalfEven(raw_start, D)
            start == IF snap THEN start_t * D ELSE raw_start
            end_t == RoundHalfEven(end, D)
            n == config.score_min_mean_over_L
        IN  IF start_blank.raised
            THEN Raised("IndexError")
            ELSE [raised |-> NoRaise,
                  segment |-> <<start, end,
                                Confidence(char_probs, n, start_t, end_t)>>,
                  raw_start |-> raw_start,
                  start_t_floor |-> start_t_floor,
                  snap |-> snap,
                  start_blank |-> start_blank,
                  start_t |-> start_t,
                  end_t |-> end_t]

RECURSIVE SegmentLoop(_, _, _, _, _, _, _, _, _)
SegmentLoop(config, utt_begin_indices, char_probs, timings, text, char_list, i, segments, locals) ==
    IF i > Len(text)
    THEN [raised |-> NoRaise, segments |-> segments, locals |-> locals]
    ELSE LET u == UtteranceSegment(config, utt_begin_indices, char_probs,
                                   timings, char_list, i)
         IN  IF u.raised # NoRaise
             THEN [raised |-> u.raised, segments |-> segments,
                   locals |-> locals]
             ELSE SegmentLoop(config, utt_begin_indices, char_probs, timings,
                              text, char_list, i + 1,
                              Append(segments, u.segment), Append(locals, u))

determine_utterance_segments(config, utt_begin_indices, char_probs, timings, text, char_list) ==
    SegmentLoop(config, utt_begin_indices, char_probs, timings, text,
                char_list, 1, <<>>, <<>>)

---------------------------------------------------------------------------
(* Inputs of the refiner *)
MaxFrames == 4      \* frames of the acoustic model output
MaxMat == 4         \* rows of the ground-truth matrix

NonDecreasing(s) == \A k \in 1..(Len(s) - 1) : s[k] <= s[k + 1]

\* begin indices as the builders return them; the last one is the last row
\* of the matrix.  Character mode: the first is the length of the start of
\* the ground truth (0 or 1) and they never decrease.  Token mode: the first
\* is 2, every utterance but the last advances by its tokens and one
\* bracket row, the last by its tokens alone.
CharBeginIndexSeqs ==
    {b \in UNION {[1..(n + 1) -> 0..(MaxMat - 1)] : n \in 1..MaxUtts} :
        b[1] \in 0..1 /\ NonDecreasing(b)}

BpeBeginIndexSeqs ==
    {b \in UNION {[1..(n + 1) -> 2..(MaxMat - 1)] : n \in 1..MaxUtts} :
        /\ b[1] = 2
        /\ NonDecreasing(b)
        /\ \A k \in 1..(Len(b) - 2) : b[k] < b[k + 1]}

BeginIndexSeqs == CharBeginIndexSeqs \cup BpeBeginIndexSeqs

\* one timing per matrix row: a frame number times the frame duration, never
\* decreasing
FrameSeqs(len) ==
    {fr \in [1..len -> 0..(MaxFrames - 1)] : NonDecreasing(fr)}

LogProbs == {-3, -1}
Backtracked == {<<"a">>, <<BlankSym>>}
IndexDurations == {2, 4}
ScoreWindows == {1, 2}

RefinerVocabulary == <<(<<"a">>), (<<"b">>), (<<" ">>), (<<BlankSym>>)>>

InitSegments ==
    /\ pc = "call"
    /\ \E D \in IndexDurations, L \in ScoreWindows, b \in BeginIndexSeqs :
       \E fr \in FrameSeqs(b[Len(b)] + 1) :
           call \in [config : {[char_list |-> RefinerVocabulary,
                                blank |-> Len(RefinerVocabulary) - 1,
                                index_duration_in_seconds |-> D,
                                score_min_mean_over_L |-> L]},
                     utt_begin_indices : {b},
                     char_probs : [1..MaxFrames -> LogProbs],
                     timings : {[k \in 1..Len(fr) |-> fr[k] * D]},
                     text : {[k \in 1..(Len(b) - 1) |-> <<"a">>]},
                     char_list : [1..MaxFrames -> Backtracked]]
    /\ ret = NoRet
    /\ files = NoFiles
    /\ log = <<>>

DetermineUtteranceSegments ==
    /\ pc = "call"
    /\ ret' = determine_utterance_segments(
                  call.config, call.utt_begin_indices, call.char_probs,
                  call.timings, call.text, call.char_list)
    /\ pc' = "done"
    /\ UNCHANGED <<call, files, log>>

NextSegments == DetermineUtteranceSegments

SpecSegments == InitSegments /\ [][NextSegments]_vars

---------------------------------------------------------------------------
(* Output writer *)
MaxSubs == 2        \* sub-segments of an utterance split upstream

\* text[i][j] on a string: its j-th character, itself a string
PyChar(s, j) == <<PyAt(s, j)>>

\* the score written for every sub-segment
HardCodedScoreTenths == -2

Line(start, end, score, text, text_no_preprocessing, text_normalized) ==
    [start |-> start, end |-> end, score |-> score, text |-> text,
     text_no_preprocessing |-> text_no_preprocessing,
     text_normalized |-> text_normalized]

IndexErrorWrite == [raises |-> "IndexError"]

\* the write attempted for sub-segment j (0-based) of utterance i (1-based)
SubSegmentWrite(x, text, text_no_preprocessing, text_normalized, i, j) ==
    IF \/ ~PyIndexOk(text[i], j)
       \/ ~PyIndexOk(text_no_preprocessing[i], j)
       \/ ~PyIndexOk(text_normalized[i], j)
    THEN IndexErrorWrite
    ELSE Line(x[1], x[2], HardCodedScoreTenths, PyChar(text[i], j),
              PyChar(text_no_preprocessing[i], j),
              PyChar(text_normalized[i], j))

\* the writes attempted for utterance i, in order
SegmentWrites(segment, text, text_no_preprocessing, text_normalized, i) ==
    IF segment.list
    THEN [k \in 1..Len(segment.items) |->
              SubSegmentWrite(segment.items[k], text, text_no_preprocessing,
                              text_normalized, i, k - 1)]
    ELSE <<Line(segment.items[1][1], segment.items[1][2],
                segment.items[1][3], text[i], text_no_preprocessing[i],
                text_normalized[i])>>

RECURSIVE AllWrites(_, _, _, _, _)
AllWrites(segments, text, text_no_preprocessing, text_normalized, i) ==
    IF i > Len(segments) THEN <<>>
    ELSE SegmentWrites(segments[i], text, text_no_preprocessing,
                       text_normalized, i)
             \o AllWrites(segments, text, text_no_preprocessing,
                          text_normalized, i + 1)

IsRaise(w) == "raises" \in DOMAIN w

\* the first write that does not reach the file: one that raises by itself,
\* or the one the file system refuses; Len + 1 when every write succeeds
FirstFailure(writes, fail_at) ==
    LET bad == {k \in 1..Len(writes) : IsRaise(writes[k]) \/ k = fail_at}
    IN  IF bad = {} THEN Len(writes) + 1
        ELSE CHOOSE k \in bad : \A m \in bad : k <= m

IoOk == [open_fails |-> FALSE, fail_at |-> 0]

\* write_output: whether it raised, whether the file was created, and the
\* lines it holds when the with-block is left
write_output(io, path_wav, segments, text, text_no_preprocessing, text_normalized) ==
    IF io.open_fails
    THEN [raised |-> "OSError", created |-> FALSE, lines |-> <<>>]
    ELSE LET writes == <<[header |-> path_wav]>>
                          \o AllWrites(segments, text, text_no_preprocessing,
                                       text_normalized, 1)
             k == FirstFailure(writes, io.fail_at)
         IN  [raised |-> IF k > Len(writes) THEN NoRaise
                         ELSE IF IsRaise(writes[k]) THEN "IndexError"
                         ELSE "OSError",
              created |-> TRUE,
              lines |-> SubSeq(writes, 1, k - 1)]

(* Inputs of the writer *)
Triples == {<<0, 1, -10>>, <<1, 2, -2>>}
SegmentShapes ==
    [list : {FALSE}, items : [1..1 -> Triples]]
        \cup [list : {TRUE}, items : SeqsUpTo(Triples, MaxSubs)]
WriterTexts == {<<"a", "b">>, <<"c">>}
IoOutcomes ==
    {[open_fails |-> TRUE, fail_at |-> 0]}
        \cup [open_fails : {FALSE}, fail_at : 0..2]

InitWrite ==
    /\ pc = "call"
    /\ \E n \in 1..MaxUtts :
           call \in [out_path : {"out"}, path_wav : {"wav"}, io : IoOutcomes,
                     segments : [1..n -> SegmentShapes],
                     text : [1..n -> WriterTexts],
                     text_no_preprocessing : [1..n -> {<<"A", "B">>}],
                     text_normalized : [1..n -> {<<"x", "y">>, <<"z">>}]]
    /\ ret = NoRet
    /\ files = NoFiles
    /\ log = <<>>

WriteOutput ==
    /\ pc = "call"
    /\ LET w == write_output(call.io, call.path_wav, call.segments, call.text,
                             call.text_no_preprocessing, call.text_normalized)
       IN  /\ ret' = [raised |-> w.raised]
           /\ files' = IF w.created THEN (call.out_path :> w.lines) @@ files
                       ELSE files
    /\ pc' = "done"
    /\ UNCHANGED <<call, log>>

NextWrite == WriteOutput

SpecWrite == InitWrite /\ [][NextWrite]_vars

---------------------------------------------------------------------------
(* The per-job driver get_segments and the worker that runs it *)

\* t.strip() on a line
RECURSIVE LStrip(_)
LStrip(t) == IF t # <<>> /\ Head(t) = space THEN LStrip(Tail(t)) ELSE t

RECURSIVE RStrip(_)
RStrip(t) ==
    IF t # <<>> /\ t[Len(t)] = space THEN RStrip(SubSeq(t, 1, Len(t) - 1))
    ELSE t

Strip(t) == RStrip(LStrip(t))

\* [t.strip() for t in lines if t.strip()]
RECURSIVE ReadLines(_, _)
ReadLines(lines, k) ==
    IF k > Len(lines) THEN <<>>
    ELSE (IF Strip(lines[k]) # <<>> THEN <<Strip(lines[k])>> ELSE <<>>)
             \o ReadLines(lines, k + 1)

Missing == [missing |-> TRUE, lines |-> <<>>]
File(lines) == [missing |-> FALSE, lines |-> lines]

\* the start of the ground truth of a freshly constructed configuration
DefaultStartOfGroundTruth == <<"#">>

\* _print: vocabulary[int(ch_id)] for every slot that is not -1
PrintRaises(ground_truth_mat, vocabulary) ==
    \E r \in 1..Len(ground_truth_mat) : \E c \in 1..2 :
        /\ ground_truth_mat[r][c] # -1
        /\ ~PyIndexOk(vocabulary, ground_truth_mat[r][c])

\* the alignment backend (external): it raises, or it returns one timing per
\* matrix row, one probability and one backtracked symbol per frame
BackendTimings(rows, D) == [k \in 1..rows |-> Min2(k - 1, MaxFrames - 1) * D]
BackendProbs == [k \in 1..MaxFrames |-> -1]

Caught(e, fs) == [caught |-> e, files |-> fs]

\* the element of a one-element set; TheOnly({F(x) : x \in {e}}) is F(e)
\* with e evaluated once
TheOnly(S) == CHOOSE x \in S : TRUE

JobConfig(job) ==
    [char_list |-> job.vocabulary,
     blank |-> Len(job.vocabulary) - 1,
     index_duration_in_seconds |-> job.index_duration,
     score_min_mean_over_L |-> job.score_min_mean_over_L,
     start_of_ground_truth |-> DefaultStartOfGroundTruth]

\* write_output on the segments, one triple per utterance
WriteStep(job, fs, segments, texts) ==
    TheOnly({ Caught(w.raised,
                     IF w.created THEN (job.output_file :> w.lines) @@ fs
                     ELSE fs) :
              w \in {write_output(job.io, job.path_wav,
                                  [k \in 1..Len(segments) |->
                                      [list |-> FALSE,
                                       items |-> <<segments[k]>>]],
                                  texts[1], texts[2], texts[3])} })

\* the backend call and determine_utterance_segments
RefineStep(job, fs, built, texts) ==
    IF ~job.bpe_model /\ PrintRaises(built.ground_truth_mat, job.vocabulary)
    THEN Caught("IndexError", fs)
    ELSE IF job.backend.raises THEN Caught("BackendError", fs)
    ELSE IF PrintRaises(built.ground_truth_mat, job.vocabulary)
    THEN Caught("IndexError", fs)
    ELSE TheOnly({ IF seg.raised # NoRaise THEN Caught(seg.raised, fs)
                   ELSE WriteStep(job, fs, seg.segments, texts) :
                   seg \in {determine_utterance_segments(
                               JobConfig(job), built.utt_begin_indices,
                               BackendProbs,
                               BackendTimings(Len(built.ground_truth_mat),
                                              job.index_duration),
                               texts[1], job.backend.char_list)} })

\* the steps of get_segments after the three text files were read; texts
\* is <<text, text_no_preprocessing, text_normalized>>
AlignAndWrite(job, fs, texts) ==
    TheOnly({ IF built.raised # NoRaise THEN Caught(built.raised, fs)
              ELSE RefineStep(job, fs, built, texts) :
              built \in {IF job.bpe_model
                         THEN _prepare_tokenized_text_for_bpe_model(
                                  texts[1], job.tokenizer, job.vocabulary)
                         ELSE _prepare_text_default(JobConfig(job),
                                                    texts[1])} })

\* get_segments: the exception caught by its try block ("none" when the job
\* ran to the end) and the file system it leaves
get_segments(job, fs) ==
    IF job.transcript.missing THEN Caught("FileNotFoundError", fs)
    ELSE IF job.with_punct.missing \/ job.with_punct_normalized.missing
    THEN Caught("ValueError", fs)
    ELSE TheOnly({ IF \/ Len(texts[2]) # Len(texts[1])
                      \/ Len(texts[3]) # Len(texts[1])
                   THEN Caught("ValueError", fs)
                   ELSE AlignAndWrite(job, fs, texts) :
                   texts \in {<<ReadLines(job.transcript.lines, 1),
                                ReadLines(job.with_punct.lines, 1),
                                ReadLines(job.with_punct_normalized.lines,
                                          1)>>} })

(* Inputs of the batch: job 1 is any job, job 2 a sibling whose three text
   files are present and match *)
Jobs == {1, 2}
OutPath(j) == IF j = 1 THEN "out1" ELSE "out2"

OneLine == <<(<<"a">>)>>
TwoLines == <<(<<"a">>), <<>>, (<<" ", "a", "b", " ">>)>>

JobVocabularies ==
    { <<(<<"a">>), (<<"b">>), (<<" ">>), (<<BlankSym>>)>>,
      <<(<<"_">>), (<<"a">>), (<<"b">>), (<<BlankSym>>)>> }

JobTokenizer == (<<"a">> :> <<1>>) @@ (<<"a", "b">> :> <<1, 2>>)

Backends ==
    { [raises |-> TRUE, char_list |-> <<>>],
      [raises |-> FALSE, char_list |-> [k \in 1..MaxFrames |-> <<"a">>]],
      [raises |-> FALSE,
       char_list |-> [k \in 1..MaxFrames |->
                         IF k = 1 THEN <<BlankSym>> ELSE <<"a">>]] }

JobInputs(j, transcripts, siblings, backends, ios) ==
    [transcript : transcripts,
     with_punct : siblings,
     with_punct_normalized : siblings,
     output_file : {OutPath(j)}, path_wav : {"wav"},
     bpe_model : BOOLEAN, vocabulary : JobVocabularies,
     tokenizer : {JobTokenizer},
     index_duration : {2}, score_min_mean_over_L : {2},
     backend : backends, io : ios]

InitJobs ==
    /\ pc = [j \in Jobs |-> "ready"]
    /\ \E j1 \in JobInputs(1, {Missing, File(OneLine), File(TwoLines)},
                           {Missing, File(OneLine), File(TwoLines)},
                           Backends, IoOutcomes),
          j2 \in JobInputs(2, {File(TwoLines)}, {File(TwoLines)},
                           {b \in Backends : ~b.raises},
                           {IoOk, [open_fails |-> FALSE, fail_at |-> 2]}) :
           call = <<j1, j2>>
    /\ ret = [j \in Jobs |-> [caught |-> NoRaise]]
    /\ files = NoFiles
    /\ log = {}

\* worker_process(j): runs get_segments, which logs what it caught, and
\* then logs the completion when the output file exists
WorkerProcess(j) ==
    /\ pc[j] = "ready"
    /\ \E r \in {get_segments(call[j], files)} :
           /\ ret' = [ret EXCEPT ![j] = [caught |-> r.caught]]
           /\ files' = r.files
           /\ log' = log
                  \cup (IF r.caught # NoRaise THEN {<<j, "failed">>} ELSE {})
                  \cup (IF call[j].output_file \in DOMAIN r.files
                        THEN {<<j, "completed">>} ELSE {})
    /\ pc' = [pc EXCEPT ![j] = "returned"]
    /\ UNCHANGED call

NextJobs == \E j \in Jobs : WorkerProcess(j)

SpecJobs == InitJobs /\ [][NextJobs]_vars

---------------------------------------------------------------------------
(* Properties of the matrix builders, under SpecBuild *)

CharDone == pc = "done" /\ ~call.bpe_model /\ ret.raised = NoRaise
BpeDone == pc = "done" /\ call.bpe_model /\ ret.raised = NoRaise

StrictlyIncreasing(s) == \A k \in 1..(Len(s) - 1) : s[k] < s[k + 1]

\* C3 (as claimed): for every utterance list, empty and fully dropped
\* utterances included, the begin indices returned by _prepare_text_default
\* number utterances + 1 and are strictly increasing.
C3_StrictlyIncreasing ==
    CharDone =>
        /\ Len(ret.utt_begin_indices) = Len(call.text) + 1
        /\ StrictlyIncreasing(ret.utt_begin_indices)

\* the rows of utterance i (1-based here): from utt_begin_indices[i] up to
\* but excluding utt_begin_indices[i+1]
UttRows(i) ==
    SubSeq(ret.ground_truth_mat,
           ret.utt_begin_indices[i] + 1, ret.utt_begin_indices[i + 1])

Bracket ==
    <<Len(call.config.char_list) - 1,
      Index(call.config.char_list, <<tokenized_meta_symbol>>)>>

IsBracket(row) == row = Bracket
IsTokenRow(row) == row # Bracket

\* C4 (as claimed): the rows of every utterance, the last one included, are
\* its token rows in order plus exactly one blank+word-boundary bracket row.
C4_EverySpanHasOneBracket ==
    BpeDone =>
        \A i \in 1..Len(call.text) :
            /\ SelectSeq(UttRows(i), IsTokenRow)
                   = TokenRows(call.tokenizer[call.text[i]], 1)
            /\ Len(SelectSeq(UttRows(i), IsBracket)) = 1

\* C4 (amended): the rows of every utterance but the last are its token rows
\* in order followed by exactly one bracket row; the rows of the last
\* utterance are its token rows alone, and the trailing bracket row is the
\* row at the final begin index.
C4_SpanTokensThenBracket ==
    BpeDone =>
        LET n == Len(call.text)
        IN  /\ Len(ret.utt_begin_indices) = n + 1
            /\ \A i \in 1..n :
                   UttRows(i) =
                       TokenRows(call.tokenizer[call.text[i]], 1)
                           \o (IF i < n THEN <<Bracket>> ELSE <<>>)
            /\ At(ret.ground_truth_mat, ret.utt_begin_indices[n + 1]) = Bracket
            /\ Len(ret.ground_truth_mat) = ret.utt_begin_indices[n + 1] + 1

C4_Witness ==
    /\ BpeDone
    /\ Len(call.text) = 2
    /\ Len(call.tokenizer[call.text[1]]) = 2
    /\ Len(call.tokenizer[call.text[2]]) = 1
    /\ Len(UttRows(1)) = 3
    /\ Len(UttRows(2)) = 1

\* the characters of an utterance that the builder keeps
RECURSIVE Retained(_, _, _)
Retained(char_list, utt, k) ==
    IF k > Len(utt) THEN <<>>
    ELSE (IF RetainChar(char_list, utt[k]) THEN <<utt[k]>> ELSE <<>>)
             \o Retained(char_list, utt, k + 1)

SpaceBeforeFirstRetained ==
    \A i \in 1..Len(call.text) :
        LET b == ret.utt_begin_indices[i]
            kept == Retained(call.config.char_list, call.text[i], 1)
        IN  /\ PyIndexOk(ret.ground_truth, b) /\ b >= 0
            /\ At(ret.ground_truth, b) = space
            /\ kept # <<>> =>
                   /\ PyIndexOk(ret.ground_truth, b + 1)
                   /\ At(ret.ground_truth, b + 1) = kept[1]

ExampleCall ==
    /\ call.config.char_list
           = <<(<<"a">>), (<<"b">>), (<<" ">>), (<<BlankSym>>)>>
    /\ call.text = <<(<<"a", "b">>), (<<"b", "a">>)>>

\* C5 (as claimed): every begin index is the position of the space right
\* before the utterance's first retained character, and for vocabulary
\* [a, b, space, blank] and utterances [ab, ba] the begin indices of the two
\* utterances are 0 and 3.
C5_ExampleZeroThree ==
    CharDone =>
        /\ SpaceBeforeFirstRetained
        /\ ExampleCall =>
               /\ ret.utt_begin_indices[1] = 0
               /\ ret.utt_begin_indices[2] = 3

\* C5 (amended): every begin index is the position of the space right before
\* the utterance's first retained character; for the example the first begin
\* index is the length of config.start_of_ground_truth (1 for "#", 0 for the
\* empty string) and the second is 3 more.
C5_ExampleAfterStart ==
    CharDone =>
        /\ SpaceBeforeFirstRetained
        /\ ExampleCall =>
               /\ ret.utt_begin_indices[1]
                      = Len(call.config.start_of_ground_truth)
               /\ ret.utt_begin_indices[2]
                      = Len(call.config.start_of_ground_truth) + 3

C5_Witness ==
    /\ CharDone
    /\ ExampleCall
    /\ call.config.start_of_ground_truth = <<"#">>
    /\ ret.ground_truth = <<"#", " ", "a", "b", " ", "b", "a", " ">>
    /\ ret.utt_begin_indices = <<1, 4, 7>>

\* C8 (as claimed): neither builder raises, on an empty vocabulary or on a
\* tokenizer returning no ids: both return begin indices numbering
\* utterances + 1.
C8_BuildersNeverRaise ==
    pc = "done" =>
        /\ ret.raised = NoRaise
        /\ Len(ret.utt_begin_indices) = Len(call.text) + 1

---------------------------------------------------------------------------
(* Properties of the refiner and scorer, under SpecSegments *)

SegmentsDone == pc = "done" /\ ret.raised = NoRaise

\* equality of two scores as numbers
SameScore(a, b) ==
    /\ a.kind = b.kind
    /\ a.den # 0 /\ b.den # 0
    /\ a.num * b.den = b.num * a.den

\* the mean of char_probs over the frames lo .. hi-1, all inside the array
FrameMean(lo, hi) == Mean(SubSeq(call.char_probs, lo + 1, hi))

\* the score the claim gives a span [s, e) of valid frames
ClaimedScore(score, s, e, L) ==
    IF e <= s THEN score = min_prob
    ELSE IF e - s <= L THEN SameScore(score, FrameMean(s, e))
    ELSE /\ \E t \in s..(e - L) : SameScore(score, FrameMean(t, t + L))
         /\ \A t \in s..(e - L) : ~Less(FrameMean(t, t + L), score)

\* C1 (as claimed): the confidence of an utterance with start frame s and
\* end frame e is the sentinel if e <= s, the mean over s..e-1 if
\* e-s <= L, and otherwise the minimum of the window means over every
\* window start t with s <= t <= e-L.
C1_MinOverAllWindows ==
    SegmentsDone =>
        \A i \in 1..Len(ret.locals) :
            ret.locals[i].start_t >= 0 =>
                ClaimedScore(ret.locals[i].segment[3],
                             ret.locals[i].start_t, ret.locals[i].end_t,
                             call.config.score_min_mean_over_L)

IsBlankFrame(k) == PyAt(call.char_list, k) = <<BlankSym>>

\* the furthest-back frame of the blank run ending at f-1, inside the
\* look-back window
FurthestBlank(f) ==
    CHOOSE m \in 0..(f - 1) :
        /\ m > f - LookBack
        /\ \A k \in m..(f - 1) : IsBlankFrame(k)
        /\ (m = 0 \/ m - 1 = f - LookBack \/ ~IsBlankFrame(m - 1))

\* C2 (as claimed): when the frame at the floored start f is blank and the
\* frame before it is blank too, the start frame is round(m + (f - m)/2)
\* for the furthest-back blank frame m of the run (m = 0 included), and the
\* start seconds are that frame times the frame duration.
C2_SnapToMidpoint ==
    SegmentsDone =>
        \A i \in 1..Len(ret.locals) :
            LET l == ret.locals[i]
                f == l.start_t_floor
            IN  (l.snap /\ f >= 1 /\ IsBlankFrame(f - 1)) =>
                    /\ l.start_t = RoundHalfEven(FurthestBlank(f) + f, 2)
                    /\ l.segment[1]
                           = l.start_t * call.config.index_duration_in_seconds

\* C6 (as claimed): for every utterance the raw start lies in
\* [timings[b[i]+1] - 0.5, timings[b[i]+1]] and the raw end in
\* [timings[b[i+1]-1], timings[b[i+1]-1] + 0.5].
C6_WithinHalfSecond ==
    pc = "done" =>
        \A i \in 1..Len(call.text) :
            LET b == call.utt_begin_indices[i]
                bn == call.utt_begin_indices[i + 1]
            IN  /\ ~ComputeTimeRaises(b, "begin", call.timings)
                /\ ~ComputeTimeRaises(bn, "end", call.timings)
                /\ i <= Len(ret.locals) =>
                       /\ PyAt(call.timings, b + 1) - HalfSecond
                              <= ret.locals[i].raw_start
                       /\ ret.locals[i].raw_start <= PyAt(call.timings, b + 1)
                       /\ PyAt(call.timings, bn - 1) <= ret.locals[i].segment[2]
                       /\ ret.locals[i].segment[2]
                              <= PyAt(call.timings, bn - 1) + HalfSecond

\* C10 (as claimed): the start frame is a valid frame index, with
\* 0 <= start frame <= f and f - start frame <= 10 when blank snapping
\* applies, and the start seconds are never negative.
C10_StartFrameValid ==
    SegmentsDone =>
        \A i \in 1..Len(ret.locals) :
            LET l == ret.locals[i]
            IN  /\ l.snap =>
                       /\ 0 <= l.start_t
                       /\ l.start_t <= l.start_t_floor
                       /\ l.start_t_floor - l.start_t <= LookBack \div 2
                /\ l.segment[1] >= 0

---------------------------------------------------------------------------
(* Properties of the output writer, under SpecWrite *)

\* the lines the claim expects for utterance i: one per sub-segment, each
\* with the sub-segment's own start, end and score and the whole texts
ClaimedLines(i) ==
    [k \in 1..Len(call.segments[i].items) |->
        Line(call.segments[i].items[k][1], call.segments[i].items[k][2],
             call.segments[i].items[k][3], call.text[i],
             call.text_no_preprocessing[i], call.text_normalized[i])]

RECURSIVE ClaimedFile(_)
ClaimedFile(i) ==
    IF i > Len(call.segments) THEN <<>>
    ELSE ClaimedLines(i) \o ClaimedFile(i + 1)

\* C9 (as claimed): the file holds the audio path, then for each utterance
\* one line for a triple and one line per sub-segment for a list, every
\* sub-segment line carrying its own start, end and score and the whole
\* per-utterance texts.
C9_SubSegmentLines ==
    (pc = "done" /\ call.io = IoOk) =>
        /\ ret.raised = NoRaise
        /\ call.out_path \in DOMAIN files
        /\ files[call.out_path]
               = <<[header |-> call.path_wav]>> \o ClaimedFile(1)

---------------------------------------------------------------------------
(* Properties of the batch, under SpecJobs *)

\* C7 (as claimed): a job in which any step fails logs the failure and
\* leaves no output file at its output path, and a job that ran to the end
\* has written its output file.
C7_FailedJobLeavesNoFile ==
    \A j \in Jobs :
        pc[j] = "returned" =>
            IF ret[j].caught # NoRaise
            THEN /\ <<j, "failed">> \in log
                 /\ call[j].output_file \notin DOMAIN files
            ELSE call[j].output_file \in DOMAIN files

=============================================================================
